---- MODULE Spec2Model ----
(***************************************************************************)
(* Digest selection of research-bookmarks: quote clustering                *)
(* (services/quote_clusterer.py), the category digest generator            *)
(* (services/category_digest_generator.py, services/category_matcher.py)   *)
(* and the digest cycle (main.py send_scheduled_digest, main.py            *)
(* send_digest, send_digest.py main) over the digest history of            *)
(* database.py.                                                            *)
(*                                                                         *)
(* Similarities are integers scaled by SimScale (0.60 is 60).  Times are   *)
(* whole days.  An embedding is a tagged value: kind "none" is Python's    *)
(* None, kind "list" carries a vector of naturals.                         *)
(***************************************************************************)
EXTENDS Integers, Sequences, FiniteSets, TLC

VARIABLES
    quotes,      \* rows of the quotes table joined with their articles
    categories,  \* rows of the categories table, by id
    history,     \* rows of the digest_history table, in insertion order
    outbox,      \* emails accepted by the delivery service, in order
    now,         \* the clock, in days
    inv,         \* the digest invocations in flight, by worker
    runs,        \* number of invocations started so far
    emailOk,     \* is_email_configured()
    call,        \* one call of a pure function: its arguments and result
    category_digest_history  \* rows of the category_digest_history table

vars == <<quotes, categories, history, outbox, now, inv, runs, emailOk, call, category_digest_history>>

----------------------------------------------------------------------------
(* Bounds of the model *)

MaxGroups == 3          \* thematic groups a generated corpus may hold
MaxDay == 8             \* last day the clock may reach
DayStep == 4            \* days between two looks at the clock
MaxRuns == 2            \* digest invocations per behaviour
MaxCategories == 2      \* categories the user may create

(* Program constants *)

SimScale == 100
DefaultSimilarityThreshold == 60
DefaultMinQuotes == 5
DefaultMinArticles == 3
OldAnchorDays == 60
TopClusters == 3
CuratorLookbackDays == 7
CategoryThreshold == 35
MinCategoryArticles == 3
CategoryDigestThreshold == 55
CategoryDigestLimit == 20
CategoryDigestQuotes == 8
CategoryLookbackDays == 30
RecentDays == 30
StatsLimit == 100
PreviewMinQuotes == 3
PreviewMinArticles == 2

----------------------------------------------------------------------------
(* Sequence helpers *)

RECURSIVE SeqSum(_)
SeqSum(s) == IF s = <<>> THEN 0 ELSE Head(s) + SeqSum(Tail(s))

Range(s) == {s[i] : i \in 1..Len(s)}

Min2(a, b) == IF a < b THEN a ELSE b

\* s[lo..hi] as Python slices it: indices past the end are dropped
Slice(s, lo, hi) == SubSeq(s, lo, Min2(hi, Len(s)))

----------------------------------------------------------------------------
(* Embeddings and cosine similarity: quote_clusterer.py 12-36 *)

NoneEmb == [kind |-> "none", vec |-> <<>>]
ListEmb(v) == [kind |-> "list", vec |-> v]

\* the vectors the model draws embeddings from: four orthogonal themes and
\* two mixed directions (cosine 0.6 and 0.8 to themes 1 and 2)
Vectors == { <<5, 0, 0, 0>>, <<0, 5, 0, 0>>, <<0, 0, 5, 0>>, <<0, 0, 0, 5>>,
             <<3, 4, 0, 0>>, <<4, 3, 0, 0>> }

Dot(a, b) == SeqSum([i \in 1..Len(a) |-> a[i] * b[i]])

\* a string embedding, as Supabase returns it: its characters, one token each
StrEmb(text) == [kind |-> "str", vec |-> text]

Digits == {"0", "1", "2", "3", "4", "5"}

DigitValue == ("0" :> 0) @@ ("1" :> 1) @@ ("2" :> 2) @@ ("3" :> 3) @@ ("4" :> 4) @@ ("5" :> 5)

\* the text is a JSON list of numbers: "[", numbers separated by ",", "]"
IsJsonList(text) ==
    /\ Len(text) >= 2
    /\ text[1] = "["
    /\ text[Len(text)] = "]"
    /\ LET inner == SubSeq(text, 2, Len(text) - 1)
       IN  \/ inner = <<>>
           \/ /\ Len(inner) % 2 = 1
              /\ \A i \in 1..Len(inner) :
                    IF i % 2 = 1 THEN inner[i] \in Digits ELSE inner[i] = ","

\* np.array(json.loads(emb)) of lines 23-26: the list the text denotes, or
\* None when json.loads raises
JsonLoads(text) ==
    IF IsJsonList(text)
    THEN LET inner == SubSeq(text, 2, Len(text) - 1)
         IN  ListEmb([i \in 1..((Len(inner) + 1) \div 2) |-> DigitValue[inner[2 * i - 1]]])
    ELSE NoneEmb

\* parse_embedding: None stays None, a list becomes an array, a string is
\* parsed as JSON and is None when malformed
parse_embedding(emb) ==
    IF emb.kind = "list" THEN emb
    ELSE IF emb.kind = "str" THEN JsonLoads(emb.vec)
    ELSE NoneEmb

\* floor(SimScale * dot / (|a| * |b|)) for vectors of naturals
CosineOfVectors(a, b) ==
    LET d  == Dot(a, b)
        na == Dot(a, a)
        nb == Dot(b, b)
    IN  CHOOSE n \in 0..SimScale :
            /\ n * n * na * nb <= SimScale * SimScale * d * d
            /\ \/ n = SimScale
               \/ (n + 1) * (n + 1) * na * nb > SimScale * SimScale * d * d

CosineTable == [a \in Vectors, b \in Vectors |-> CosineOfVectors(a, b)]

\* line 36: np.dot raises ValueError for arrays of different lengths
CosineRaises(a, b) ==
    LET pa == parse_embedding(a)
        pb == parse_embedding(b)
    IN  pa.kind = "list" /\ pb.kind = "list" /\ Len(pa.vec) # Len(pb.vec)

\* line 36: a zero norm makes the quotient 0/0, which numpy returns as nan
CosineIsNaN(a, b) ==
    LET pa == parse_embedding(a)
        pb == parse_embedding(b)
    IN  /\ pa.kind = "list" /\ pb.kind = "list" /\ Len(pa.vec) = Len(pb.vec)
        /\ (Dot(pa.vec, pa.vec) = 0 \/ Dot(pb.vec, pb.vec) = 0)

\* the value cosine_similarity returns when it returns a number
cosine_similarity(a, b) ==
    LET pa == parse_embedding(a)
        pb == parse_embedding(b)
    IN  IF pa.kind = "none" \/ pb.kind = "none" THEN 0
        ELSE IF pa.vec \in Vectors /\ pb.vec \in Vectors THEN CosineTable[pa.vec, pb.vec]
        ELSE CosineOfVectors(pa.vec, pb.vec)

----------------------------------------------------------------------------
(* find_quote_clusters: quote_clusterer.py 39-152 *)

\* HasEmbedding letting every quote through
HasEmbedding_All(q) == TRUE

\* q.get('embedding') is truthy
HasEmbedding(q) == q.embedding.kind # "none" /\ q.embedding.vec # <<>>

RECURSIVE InsertByCreated(_, _)
\* q placed after every element that is not created later (stable)
InsertByCreated(s, q) ==
    IF s = <<>> THEN <<q>>
    ELSE IF Head(s).created_at <= q.created_at
         THEN <<Head(s)>> \o InsertByCreated(Tail(s), q)
         ELSE <<q>> \o s

RECURSIVE SortByCreated(_)
\* sorted(quotes, key=created_at): stable, oldest first
SortByCreated(s) ==
    IF s = <<>> THEN <<>>
    ELSE InsertByCreated(SortByCreated(SubSeq(s, 1, Len(s) - 1)), s[Len(s)])

RECURSIVE InsertBySize(_, _)
\* c placed after every element that is not smaller (stable, descending)
InsertBySize(s, c) ==
    IF s = <<>> THEN <<c>>
    ELSE IF Head(s).total_quotes >= c.total_quotes
         THEN <<Head(s)>> \o InsertBySize(Tail(s), c)
         ELSE <<c>> \o s

\* SortBySizeDesc leaving the clusters in the order their seeds were opened
SortBySizeDesc_Unsorted(s) == s

RECURSIVE SortBySizeDesc(_)
\* clusters.sort(key=total_quotes, reverse=True): stable
SortBySizeDesc(s) ==
    IF s = <<>> THEN <<>>
    ELSE InsertBySize(SortBySizeDesc(SubSeq(s, 1, Len(s) - 1)), s[Len(s)])

\* ClusterAround absorbing only candidates strictly above the threshold
ClusterAround_Above(anchor, sorted, clustered, threshold) ==
    LET Absorbed(q) ==
            /\ q.id \notin clustered \cup {anchor.id}
            /\ cosine_similarity(anchor.embedding, q.embedding) > threshold
    IN  <<anchor>> \o SelectSeq(sorted, Absorbed)

\* ClusterAround taking candidates whether or not they are already clustered
ClusterAround_Reusing(anchor, sorted, clustered, threshold) ==
    LET Absorbed(q) ==
            /\ q.id # anchor.id
            /\ cosine_similarity(anchor.embedding, q.embedding) >= threshold
    IN  <<anchor>> \o SelectSeq(sorted, Absorbed)

\* the seed followed by every unclustered quote at least threshold-similar to it
ClusterAround(anchor, sorted, clustered, threshold) ==
    LET Absorbed(q) ==
            /\ q.id \notin clustered \cup {anchor.id}
            /\ cosine_similarity(anchor.embedding, q.embedding) >= threshold
    IN  <<anchor>> \o SelectSeq(sorted, Absorbed)

\* MarkClustered marking the seed only
MarkClustered_SeedOnly(clustered, cluster_quotes) == clustered \cup {cluster_quotes[1].id}

\* lines 86 and 96: the seed and every absorbed quote are marked, whatever
\* becomes of the group
MarkClustered(clustered, cluster_quotes) ==
    clustered \cup {q.id : q \in Range(cluster_quotes)}

\* RelaxedEchoes starting at the seed
RelaxedEchoes_FromSeed(cluster_quotes) == Slice(cluster_quotes, 1, 3)

\* line 144: cluster_quotes[1:4]
RelaxedEchoes(cluster_quotes) == Slice(cluster_quotes, 2, 4)

\* MeetsCriteria with the article count not looked at
MeetsCriteria_QuotesOnly(cluster_quotes, article_ids, min_quotes, min_articles) ==
    Len(cluster_quotes) >= min_quotes

\* line 101
MeetsCriteria(cluster_quotes, article_ids, min_quotes, min_articles) ==
    Len(cluster_quotes) >= min_quotes /\ Cardinality(article_ids) >= min_articles

\* lines 98-147: the gates and the old/recent split of one candidate cluster;
\* the result is a sequence of zero or one cluster
SplitCluster(cluster_quotes, min_quotes, min_articles, require_old_anchor, today) ==
    LET article_ids == {q.article_id : q \in Range(cluster_quotes)}
        two_months_ago == today - OldAnchorDays
        IsOld(q) == q.created_at < two_months_ago
        IsRecent(q) == ~(q.created_at < two_months_ago)
        old_quotes == SelectSeq(cluster_quotes, IsOld)
        recent_quotes == SelectSeq(cluster_quotes, IsRecent)
        has_old_anchor == Len(old_quotes) > 0
    IN  IF ~MeetsCriteria(cluster_quotes, article_ids, min_quotes, min_articles)
        THEN <<>>
        ELSE IF require_old_anchor
        THEN IF has_old_anchor /\ Len(recent_quotes) >= 2
             THEN << [quotes |-> cluster_quotes,
                      article_ids |-> article_ids,
                      has_old_anchor |-> TRUE,
                      anchor_quote |-> old_quotes[1],
                      recent_quotes |-> Slice(recent_quotes, 1, 3),
                      total_quotes |-> Len(cluster_quotes),
                      total_articles |-> Cardinality(article_ids)] >>
             ELSE <<>>
        ELSE << [quotes |-> cluster_quotes,
                 article_ids |-> article_ids,
                 has_old_anchor |-> has_old_anchor,
                 anchor_quote |-> cluster_quotes[1],
                 recent_quotes |-> RelaxedEchoes(cluster_quotes),
                 total_quotes |-> Len(cluster_quotes),
                 total_articles |-> Cardinality(article_ids)] >>

RECURSIVE GreedyClusters(_, _, _, _, _, _, _, _)
\* lines 80-147: the loop over the sorted quotes, from position i on
GreedyClusters(sorted, i, clustered, threshold, min_quotes, min_articles, require_old_anchor, today) ==
    IF i > Len(sorted) THEN <<>>
    ELSE IF sorted[i].id \in clustered
    THEN GreedyClusters(sorted, i + 1, clustered, threshold, min_quotes,
                        min_articles, require_old_anchor, today)
    ELSE LET cluster_quotes == ClusterAround(sorted[i], sorted, clustered, threshold)
         IN  SplitCluster(cluster_quotes, min_quotes, min_articles,
                          require_old_anchor, today)
             \o GreedyClusters(sorted, i + 1,
                               MarkClustered(clustered, cluster_quotes), threshold,
                               min_quotes, min_articles, require_old_anchor, today)

find_quote_clusters(qs, threshold, min_quotes, min_articles, require_old_anchor, today) ==
    LET quotes_with_embeddings == SelectSeq(qs, HasEmbedding)
    IN  IF Len(qs) < min_quotes THEN <<>>
        ELSE IF Len(quotes_with_embeddings) < min_quotes THEN <<>>
        ELSE SortBySizeDesc(
                GreedyClusters(SortByCreated(quotes_with_embeddings), 1, {},
                               threshold, min_quotes, min_articles,
                               require_old_anchor, today))

----------------------------------------------------------------------------
(* get_cluster_for_digest: quote_clusterer.py 155-193 *)

\* what a call returns: None, a value, or a raised exception
None == [kind |-> "none"]
Value(v) == [kind |-> "value", value |-> v]
Raised(e) == [kind |-> "raise", exc |-> e]

\* AvailableClusters without the filter of lines 176-179
AvailableClusters_Unfiltered(clusters, excluded_anchor_ids) == clusters

\* AvailableClusters without the reset of lines 182-183
AvailableClusters_NoReset(clusters, excluded_anchor_ids) ==
    LET NotRecentlyUsed(c) == c.anchor_quote.id \notin excluded_anchor_ids
    IN  SelectSeq(clusters, NotRecentlyUsed)

\* lines 173-183: clusters whose anchor was not recently used, or all of them
AvailableClusters(clusters, excluded_anchor_ids) ==
    LET NotRecentlyUsed(c) == c.anchor_quote.id \notin excluded_anchor_ids
        available == SelectSeq(clusters, NotRecentlyUsed)
    IN  IF available = <<>> THEN clusters ELSE available

\* TopOf without the cut of line 187
TopOf_All(available_clusters) == available_clusters

\* lines 185-187
TopOf(available_clusters) ==
    SubSeq(available_clusters, 1, Min2(TopClusters, Len(available_clusters)))

\* the results get_cluster_for_digest may return: random.choices draws any of
\* top_clusters (every weight of [3, 2, 1] is positive) and raises IndexError
\* on an empty population
get_cluster_for_digest(qs, relaxed, excluded_anchor_ids, today) ==
    LET clusters == find_quote_clusters(qs, DefaultSimilarityThreshold,
                        DefaultMinQuotes, DefaultMinArticles, ~relaxed, today)
        top_clusters == TopOf(AvailableClusters(clusters, excluded_anchor_ids))
    IN  IF clusters = <<>> THEN {None}
        ELSE IF top_clusters = <<>> THEN {Raised("IndexError")}
        ELSE {Value(c) : c \in Range(top_clusters)}

----------------------------------------------------------------------------
(* Generated corpora: thematic groups of quotes around orthogonal themes *)

ThemeVector(g) == [i \in 1..4 |-> IF i = g THEN 5 ELSE 0]

\* a group of n quotes over `spread` articles; `old` dates its first quote
\* more than 60 days back
Shapes == { [n |-> 0, spread |-> 3, old |-> FALSE],
            [n |-> 4, spread |-> 3, old |-> TRUE],
            [n |-> 5, spread |-> 3, old |-> FALSE],
            [n |-> 5, spread |-> 3, old |-> TRUE],
            [n |-> 6, spread |-> 3, old |-> TRUE] }

GroupQuote(g, k, shape) ==
    [id |-> 10 * g + k,
     article_id |-> 10 * g + ((k - 1) % shape.spread) + 1,
     embedding |-> ListEmb(ThemeVector(g)),
     created_at |-> IF k = 1 /\ shape.old THEN g - 90 ELSE k - 20]

GroupQuotes(g, shape) == [k \in 1..shape.n |-> GroupQuote(g, k, shape)]

\* a quote between themes 1 and 2: cosine exactly 0.60 to theme 1, 0.80 to theme 2
BridgeQuote ==
    [id |-> 1, article_id |-> 1, embedding |-> ListEmb(<<3, 4, 0, 0>>),
     created_at |-> 0 - 10]

\* a quote whose embedding was never generated
BareQuote ==
    [id |-> 2, article_id |-> 2, embedding |-> NoneEmb, created_at |-> 0 - 80]

RECURSIVE GroupsFrom(_, _)
GroupsFrom(shapeOf, g) ==
    IF g > MaxGroups THEN <<>>
    ELSE GroupQuotes(g, shapeOf[g]) \o GroupsFrom(shapeOf, g + 1)

Corpus(shapeOf, extras) ==
    (IF "bare" \in extras THEN <<BareQuote>> ELSE <<>>)
    \o GroupsFrom(shapeOf, 1)
    \o (IF "bridge" \in extras THEN <<BridgeQuote>> ELSE <<>>)

Corpora ==
    { Corpus(shapeOf, extras) :
        shapeOf \in [1..MaxGroups -> Shapes], extras \in {{}, {"bridge", "bare"}} }

\* ids a generated corpus may give to the first quote of a group
FirstIds == {10 * g + 1 : g \in 1..MaxGroups}

----------------------------------------------------------------------------
(* The state of the cycle while a pure function is exercised *)

CycleAtRest ==
    /\ categories = <<>>
    /\ history = <<>>
    /\ outbox = <<>>
    /\ now = 0
    /\ inv = <<>>
    /\ runs = 0
    /\ emailOk = TRUE
    /\ category_digest_history = <<>>

cycleVars == <<categories, history, outbox, now, inv, runs, emailOk, category_digest_history>>

----------------------------------------------------------------------------
(* Specification SpecSelect: get_cluster_for_digest on generated corpora *)

InitSelect ==
    /\ quotes \in Corpora
    /\ CycleAtRest
    /\ \E relaxed \in BOOLEAN, excluded \in SUBSET FirstIds :
         call = [op |-> "get_cluster_for_digest", pc |-> "called",
                 relaxed |-> relaxed, excluded_anchor_ids |-> excluded,
                 result |-> None]

CallGetClusterForDigest ==
    /\ call.op = "get_cluster_for_digest"
    /\ call.pc = "called"
    /\ \E r \in get_cluster_for_digest(quotes, call.relaxed,
                                       call.excluded_anchor_ids, now) :
         call' = [call EXCEPT !.pc = "returned", !.result = r]
    /\ UNCHANGED <<quotes, cycleVars>>

NextSelect == CallGetClusterForDigest

SpecSelect == InitSelect /\ [][NextSelect]_vars

\* the qualifying clusters of the call in progress, in richness order
CallClusters ==
    find_quote_clusters(quotes, DefaultSimilarityThreshold, DefaultMinQuotes,
                        DefaultMinArticles, ~call.relaxed, now)

AnchorIds(clusters) == {c.anchor_quote.id : c \in Range(clusters)}

SelectReturned == call.op = "get_cluster_for_digest" /\ call.pc = "returned"

\* C4: get_cluster_for_digest never returns a cluster whose anchor quote id
\* is in excluded_anchor_ids, unless every qualifying cluster's anchor is
\* excluded; then the returned cluster is one of the qualifying clusters.
C4_NoExcludedAnchor ==
    (SelectReturned /\ call.result.kind = "value") =>
        /\ call.result.value \in Range(CallClusters)
        /\ \/ call.result.value.anchor_quote.id \notin call.excluded_anchor_ids
           \/ AnchorIds(CallClusters) \subseteq call.excluded_anchor_ids

\* a returned cluster with a fresh anchor while another qualifying cluster's
\* anchor is excluded
C4_Witness ==
    /\ SelectReturned
    /\ call.result.kind = "value"
    /\ call.result.value.anchor_quote.id \notin call.excluded_anchor_ids
    /\ AnchorIds(CallClusters) \cap call.excluded_anchor_ids # {}

\* C5: get_cluster_for_digest returns None exactly when clustering plus
\* splitting in the requested mode yields no qualifying cluster; otherwise it
\* returns a cluster, also when every qualifying anchor is excluded.
C5_NoneIffNoClusters ==
    SelectReturned =>
        /\ (call.result.kind = "none") <=> (CallClusters = <<>>)
        /\ (CallClusters # <<>>) => call.result.kind = "value"

\* the only qualifying cluster's anchor is excluded and that cluster is returned
C5_Witness ==
    /\ SelectReturned
    /\ Len(CallClusters) = 1
    /\ CallClusters[1].anchor_quote.id \in call.excluded_anchor_ids
    /\ call.result = Value(CallClusters[1])


----------------------------------------------------------------------------
(* Specification SpecTop: get_cluster_for_digest on corpora with one more
   thematic group than the selection considers *)

TopGroups == TopClusters + 1

\* empty groups and groups that qualify in both modes
TopShapes == {s \in Shapes : s.n = 0 \/ (s.old /\ s.n >= DefaultMinQuotes)}

RECURSIVE GroupsUpTo(_, _, _)
GroupsUpTo(shapeOf, g, last) ==
    IF g > last THEN <<>>
    ELSE GroupQuotes(g, shapeOf[g]) \o GroupsUpTo(shapeOf, g + 1, last)

TopCorpora ==
    { GroupsUpTo(shapeOf, 1, TopGroups) : shapeOf \in [1..TopGroups -> TopShapes] }

InitTop ==
    /\ quotes \in TopCorpora
    /\ CycleAtRest
    /\ \E relaxed \in BOOLEAN, excluded \in SUBSET {10 * g + 1 : g \in 1..TopGroups} :
         call = [op |-> "get_cluster_for_digest", pc |-> "called",
                 relaxed |-> relaxed, excluded_anchor_ids |-> excluded,
                 result |-> None]

NextTop == CallGetClusterForDigest

SpecTop == InitTop /\ [][NextTop]_vars

\* the list the selection draws from: the clusters left by the exclusion
\* filter, or all of them when the filter leaves none
CallAvailable == AvailableClusters(CallClusters, call.excluded_anchor_ids)

\* C28: get_cluster_for_digest returns one of the first three clusters, in
\* richness order, of the list that remains after the exclusion filter (or of
\* the unfiltered list when the filter leaves nothing); a cluster that is
\* fourth or later in that list is never returned.
C28_OnlyTopThree ==
    (SelectReturned /\ call.result.kind = "value") =>
        /\ call.result.value \in Range(CallAvailable)
        /\ \A i \in 1..Len(CallAvailable) :
             i > TopClusters => call.result.value # CallAvailable[i]

\* four clusters qualify and every anchor is excluded: the selection falls
\* back to the unfiltered list of four and returns its third cluster
C28_Witness ==
    /\ SelectReturned
    /\ Len(CallClusters) = TopClusters + 1
    /\ AnchorIds(CallClusters) \subseteq call.excluded_anchor_ids
    /\ call.result = Value(CallAvailable[TopClusters])

----------------------------------------------------------------------------
(* Digests and the digest history: digest_generator.py, database.py 205-235 *)

\* None where a quote or article id is expected
NoId == 0

\* digest.get(key, default) on a dict modelled as a record
DictGet(d, key, default) == IF key \in DOMAIN d THEN d[key] ELSE default

\* _parse_curator_response, lines 100-158: the keys of the returned dict
\* (html_body is abstracted to the quotes it shows)
parse_curator_response(anchor, recent) ==
    [subject |-> "Worth revisiting",
     html_body |-> [anchor |-> anchor.id,
                    recent |-> [i \in 1..Len(recent) |-> recent[i].id]],
     theme |-> "theme",
     anchor_article |-> anchor.article_id,
     recent_count |-> Len(recent)]

\* generate_curator_digest, lines 26-97, once get_cluster_for_digest returned
\* `picked`: None without a cluster, None when the language model call fails
\* (the exception is caught), else the parsed response
CuratorDigestFor(picked, llm_ok) ==
    IF picked.kind # "value" THEN None
    ELSE IF ~llm_ok THEN None
    ELSE Value(parse_curator_response(picked.value.anchor_quote,
                                      picked.value.recent_quotes))

\* the parameters generate_curator_digest declares (line 15)
GenerateCuratorDigestParams == {"quotes_with_articles", "relaxed"}

\* line 27: get_cluster_for_digest(quotes_with_articles, relaxed=relaxed);
\* no exclusion set is handed on, so excluded_anchor_ids is its default None
CuratorPicks(qs, relaxed, today) == get_cluster_for_digest(qs, relaxed, {}, today)

generate_curator_digest(qs, relaxed, today) ==
    { CuratorDigestFor(picked, llm_ok) :
        picked \in CuratorPicks(qs, relaxed, today), llm_ok \in BOOLEAN }

\* generate_curator_digest(quotes, excluded_anchor_ids=excluded_anchors), as
\* main.py 118, main.py 506 and send_digest.py 40 call it: a keyword the
\* function does not declare raises TypeError before its body runs
CallGenerateCuratorDigest(qs, keywords, today) ==
    IF keywords \subseteq GenerateCuratorDigestParams
    THEN generate_curator_digest(qs, TRUE, today)
    ELSE {Raised("TypeError")}

\* get_recent_digest_anchor_ids(days): database.py 205-220
get_recent_digest_anchor_ids(rows, days, today) ==
    { rows[i].anchor_quote_id : i \in
        { j \in 1..Len(rows) :
            rows[j].sent_at >= today - days /\ rows[j].anchor_quote_id # NoId } }

\* the row save_digest_history inserts (database.py 223-235) for the
\* arguments main.py 124-129 reads from the digest
HistoryRow(digest, today, run) ==
    [sent_at |-> today,
     theme |-> DictGet(digest, "theme", "None"),
     anchor_quote_id |-> DictGet(digest, "anchor_quote_id", NoId),
     anchor_article_id |-> DictGet(digest, "anchor_article_id", NoId),
     cluster_quote_ids |-> DictGet(digest, "cluster_quote_ids", <<>>),
     run |-> run]

----------------------------------------------------------------------------
(* Categories: main.py 799-830, and the functions main.py imports from      *)
(* database.py and digest_generator.py that those files do not define       *)

NoCategory == 0

\* create_category: a new row, queued; created_at grows with the id
NewCategory(id, embedding) ==
    [id |-> id, embedding |-> embedding, status |-> "queued",
     created_at |-> id, last_digest_at |-> NoId - 1,
     min_quotes_for_digest |-> DefaultMinQuotes]

\* get_queued_categories(): the queued rows, oldest created_at first
get_queued_categories(cats) ==
    LET IsQueued(c) == c.status = "queued"
    IN  SortByCreated(SelectSeq(cats, IsQueued))

\* move_category_to_pool(id)
move_category_to_pool(cats, id) ==
    [i \in 1..Len(cats) |->
        IF cats[i].id = id THEN [cats[i] EXCEPT !.status = "pool"] ELSE cats[i]]

\* update_category_last_digest(id): database.py 397-405
update_category_last_digest(cats, id, today) ==
    [i \in 1..Len(cats) |->
        IF cats[i].id = id THEN [cats[i] EXCEPT !.last_digest_at = today]
        ELSE cats[i]]

\* the quotes of qs matching a category: similarity to its embedding at least
\* CategoryThreshold
CategoryMatches(category, qs) ==
    LET Matches(q) ==
            /\ HasEmbedding(q)
            /\ cosine_similarity(category.embedding, q.embedding) >= CategoryThreshold
    IN  SelectSeq(qs, Matches)

\* generate_digest_for_category(category, quotes): a digest when at least
\* min_quotes_for_digest quotes from at least 3 articles match, else None
generate_digest_for_category(category, qs) ==
    LET matches == CategoryMatches(category, qs)
        article_ids == {q.article_id : q \in Range(matches)}
    IN  IF Len(matches) < category.min_quotes_for_digest THEN None
        ELSE IF Cardinality(article_ids) < MinCategoryArticles THEN None
        ELSE Value([subject |-> "Category Digest",
                    html_body |-> [category |-> category.id,
                                   quotes |-> [i \in 1..Len(matches) |-> matches[i].id]],
                    theme |-> "category",
                    category_id |-> category.id,
                    quote_ids |-> [i \in 1..Len(matches) |-> matches[i].id],
                    article_count |-> Cardinality(article_ids)])

\* the embeddings a user's category may get
CategoryEmbeddings == {ListEmb(ThemeVector(g)) : g \in {1, 4}}

----------------------------------------------------------------------------
(* The digest cycle: main.py 86-141 (scheduler), main.py 486-532 (api),     *)
(* send_digest.py 19-64 (script)                                            *)

Workers == {"scheduler", "api", "script"}

\* the processes that run send_scheduled_digest: the application, and a second
\* instance of it where the deployment starts one (main.py 144-158 runs in
\* every process)
Schedulers == {"scheduler", "scheduler_2"}

Idle == [pc |-> "idle", run |-> 0, category |-> NoCategory, queued_seen |-> <<>>,
         digest |-> None, category_used |-> NoCategory, excluded |-> {},
         outcome |-> "none", steps |-> <<>>, fault |-> "none",
         in_flight_seen |-> {}]

\* the invocations of other workers that are under way
InFlightBeside(w) == {inv[v].run : v \in {u \in DOMAIN inv : u # w /\ inv[u].pc # "idle"}}

\* PickQueued taking the newest queued category
PickQueued_Newest(queued) == queued[Len(queued)]

\* main.py 106: the queued category the cycle attempts
PickQueued(queued) == queued[1]

\* NeedsCurator with the test of line 116 dropped
NeedsCurator_Always(digest) == TRUE

\* main.py 116: auto-discovery runs when no queued category produced a digest
NeedsCurator(digest) == digest.kind # "value"

\* AfterSend saving the history whether or not the email went out
AfterSend_Always(delivered) == "record"

\* main.py 121-124, main.py 514-517, send_digest.py 48-51: the history is
\* saved once send_digest_email has returned; when it raises, the handler's
\* except clause ends the invocation
AfterSend(delivered) == IF delivered THEN "record" ELSE "idle"

\* AfterRecord leaving the used category queued
AfterRecord_Never(category_used) == "idle"

\* main.py 132: a used queued category is moved to the pool
AfterRecord(category_used) == IF category_used # NoCategory THEN "pool" ELSE "idle"

Finish(w, outcome) == [inv[w] EXCEPT !.pc = "idle", !.outcome = outcome]

\* the handler is entered: is_email_configured() (main.py 88, 489,
\* send_digest.py 22)
Start(w) ==
    /\ inv[w].pc = "idle"
    /\ runs < MaxRuns
    /\ runs' = runs + 1
    /\ inv' = [inv EXCEPT ![w] =
                 IF emailOk
                 THEN [Idle EXCEPT !.pc = "fetch_quotes", !.run = runs + 1,
                                   !.in_flight_seen = InFlightBeside(w)]
                 ELSE [Idle EXCEPT !.run = runs + 1, !.outcome = "not_configured"]]
    /\ UNCHANGED <<quotes, categories, history, outbox, now, emailOk, call, category_digest_history>>

\* get_all_quotes_with_articles() and the empty check (main.py 94-98, 495-501,
\* send_digest.py 27-31)
FetchQuotes(w) ==
    /\ inv[w].pc = "fetch_quotes"
    /\ inv' = [inv EXCEPT ![w] =
                 IF quotes = <<>> THEN Finish(w, "no_quotes")
                 ELSE IF w \in Schedulers THEN [inv[w] EXCEPT !.pc = "check_queued"]
                 ELSE [inv[w] EXCEPT !.pc = "read_anchors"]]
    /\ UNCHANGED <<quotes, categories, history, outbox, now, runs, emailOk, call, category_digest_history>>

\* main.py 104-113: the oldest queued category gets first refusal
CheckQueued(w) ==
    /\ inv[w].pc = "check_queued"
    /\ LET queued == get_queued_categories(categories)
       IN  IF queued = <<>>
           THEN inv' = [inv EXCEPT ![w].pc = "read_anchors"]
           ELSE LET category == PickQueued(queued)
                    digest == generate_digest_for_category(category, quotes)
                IN  inv' = [inv EXCEPT ![w] =
                        [inv[w] EXCEPT
                           !.category = category.id,
                           !.queued_seen = [i \in 1..Len(queued) |-> queued[i].id],
                           !.digest = digest,
                           !.category_used =
                               IF digest.kind = "value" THEN category.id ELSE NoCategory,
                           !.steps = IF digest.kind = "value"
                                     THEN <<"select", "generate">> ELSE <<>>,
                           !.pc = IF NeedsCurator(digest) THEN "read_anchors"
                                  ELSE "send"]]
    /\ UNCHANGED <<quotes, categories, history, outbox, now, runs, emailOk, call, category_digest_history>>

\* main.py 117, main.py 504, send_digest.py 36
ReadAnchors(w) ==
    /\ inv[w].pc = "read_anchors"
    /\ inv' = [inv EXCEPT ![w] =
                 [inv[w] EXCEPT
                    !.excluded = get_recent_digest_anchor_ids(history,
                                     CuratorLookbackDays, now),
                    !.pc = "curate"]]
    /\ UNCHANGED <<quotes, categories, history, outbox, now, runs, emailOk, call, category_digest_history>>

\* main.py 118-120 and 138-141, main.py 506-511, send_digest.py 40-44
Curate(w) ==
    /\ inv[w].pc = "curate"
    /\ \E r \in CallGenerateCuratorDigest(quotes, {"excluded_anchor_ids"}, now) :
         inv' = [inv EXCEPT ![w] =
                   IF r.kind = "raise" THEN Finish(w, "raised")
                   ELSE IF r.kind = "none" THEN Finish(w, "nothing_to_send")
                   ELSE [inv[w] EXCEPT !.digest = r, !.pc = "send",
                                       !.steps = <<"select", "generate">>]]
    /\ UNCHANGED <<quotes, categories, history, outbox, now, runs, emailOk, call, category_digest_history>>

\* send_digest_email(subject, html_body): email_sender.py 5-31; the delivery
\* service accepts the email or the call raises
Send(w) ==
    /\ inv[w].pc = "send"
    /\ \E delivered \in BOOLEAN :
         /\ outbox' = IF delivered
                      THEN Append(outbox,
                               [run |-> inv[w].run,
                                overlapped |-> inv[w].in_flight_seen,
                                category |-> inv[w].category_used,
                                subject |-> inv[w].digest.value.subject,
                                html_body |-> inv[w].digest.value.html_body])
                      ELSE outbox
         /\ inv' = [inv EXCEPT ![w] =
                      [inv[w] EXCEPT
                         !.pc = AfterSend(delivered),
                         !.outcome = IF AfterSend(delivered) = "idle"
                                     THEN "delivery_failed" ELSE @,
                         !.steps = IF delivered THEN Append(@, "deliver") ELSE @]]
    /\ UNCHANGED <<quotes, categories, history, now, runs, emailOk, call, category_digest_history>>

\* save_digest_history(...): main.py 124-129, main.py 517-522,
\* send_digest.py 51-56
Record(w) ==
    /\ inv[w].pc = "record"
    /\ history' = Append(history, HistoryRow(inv[w].digest.value, now, inv[w].run))
    /\ inv' = [inv EXCEPT ![w] =
                 [inv[w] EXCEPT
                    !.pc = AfterRecord(inv[w].category_used),
                    !.outcome = IF AfterRecord(inv[w].category_used) = "idle"
                                THEN "sent" ELSE @,
                    !.steps = Append(@, "record")]]
    /\ UNCHANGED <<quotes, categories, outbox, now, runs, emailOk, call, category_digest_history>>

\* main.py 132-135
Pool(w) ==
    /\ inv[w].pc = "pool"
    /\ categories' = update_category_last_digest(
                         move_category_to_pool(categories, inv[w].category_used),
                         inv[w].category_used, now)
    /\ inv' = [inv EXCEPT ![w] = Finish(w, "sent")]
    /\ UNCHANGED <<quotes, history, outbox, now, runs, emailOk, call, category_digest_history>>

\* POST /categories: main.py 799-830
CreateCategory ==
    /\ Len(categories) < MaxCategories
    /\ \E e \in CategoryEmbeddings :
         categories' = Append(categories, NewCategory(Len(categories) + 1, e))
    /\ UNCHANGED <<quotes, history, outbox, now, inv, runs, emailOk, call, category_digest_history>>

\* time passes
Tick ==
    /\ now + DayStep <= MaxDay
    /\ now' = now + DayStep
    /\ UNCHANGED <<quotes, categories, history, outbox, inv, runs, emailOk, call, category_digest_history>>

NoCall == [op |-> "none", pc |-> "none"]

\* the corpora of the cycle: themes 1 and 2 are each absent or a qualifying
\* cluster, the other themes have no quotes
CycleShapes == { [n |-> 0, spread |-> 3, old |-> FALSE],
                 [n |-> 5, spread |-> 3, old |-> TRUE] }

CycleCorpora ==
    { Corpus(shapeOf, {}) :
        shapeOf \in { f \in [1..MaxGroups -> CycleShapes] :
                        \A g \in 1..MaxGroups : g > 2 => f[g].n = 0 } }

Init ==
    /\ quotes \in CycleCorpora
    /\ categories = <<>>
    /\ history = <<>>
    /\ outbox = <<>>
    /\ now = 0
    /\ inv = [w \in Workers |-> Idle]
    /\ runs = 0
    /\ emailOk \in BOOLEAN
    /\ call = NoCall
    /\ category_digest_history = <<>>

Next ==
    \/ \E w \in Workers : Start(w)
    \/ \E w \in Workers : FetchQuotes(w)
    \/ \E w \in Workers : CheckQueued(w)
    \/ \E w \in Workers : ReadAnchors(w)
    \/ \E w \in Workers : Curate(w)
    \/ \E w \in Workers : Send(w)
    \/ \E w \in Workers : Record(w)
    \/ \E w \in Workers : Pool(w)
    \/ CreateCategory
    \/ Tick

Spec == Init /\ [][Next]_vars


----------------------------------------------------------------------------
(* Properties of the digest cycle *)

IsPrefix(s, t) == Len(s) <= Len(t) /\ s = SubSeq(t, 1, Len(s))

Delivered(run) == \E j \in 1..Len(outbox) : outbox[j].run = run

Recorded(run) == \E i \in 1..Len(history) : history[i].run = run

InFlight(run) == \E w \in Workers : inv[w].run = run /\ inv[w].pc # "idle"

\* C1: in every digest invocation the history record is written only after
\* the email delivery has returned successfully: every history row belongs to
\* an invocation whose email went out, an invocation that ended without
\* delivering has written none, and the steps of an invocation are a prefix
\* of select, generate, deliver, record.
C1_RecordOnlyAfterDelivery ==
    /\ \A i \in 1..Len(history) : Delivered(history[i].run)
    /\ \A w \in Workers :
         /\ IsPrefix(inv[w].steps, <<"select", "generate", "deliver", "record">>)
         /\ inv[w].outcome \in {"delivery_failed", "nothing_to_send", "raised",
                                "no_quotes", "not_configured"}
              => ~Recorded(inv[w].run)

\* an invocation that selected, generated, delivered and then recorded
C1_Witness ==
    \E w \in Workers :
        /\ inv[w].steps = <<"select", "generate", "deliver", "record">>
        /\ Recorded(inv[w].run)
        /\ Delivered(inv[w].run)

\* C6: an invocation sends at most one email, and auto-discovery is entered
\* only when the category path produced no digest.
C6_OneDigestPerInvocation ==
    /\ \A r \in 1..runs :
         Cardinality({j \in 1..Len(outbox) : outbox[j].run = r}) <= 1
    /\ \A w \in Workers :
         (inv[w].pc \in {"read_anchors", "curate"}
            \/ inv[w].outcome \in {"raised", "nothing_to_send"})
           => inv[w].category_used = NoCategory /\ inv[w].digest.kind # "value"

\* a scheduled invocation that sent its one (category) digest
C6_Witness ==
    /\ inv["scheduler"].outcome = "sent"
    /\ Cardinality({j \in 1..Len(outbox) : outbox[j].run = inv["scheduler"].run}) = 1

\* C7: of several queued categories the cycle attempts the one with the
\* oldest created_at, and no other.
C7_OldestQueuedFirst ==
    \A w \in Workers :
        inv[w].category # NoCategory =>
            \A i \in 1..Len(inv[w].queued_seen) :
                categories[inv[w].category].created_at
                    <= categories[inv[w].queued_seen[i]].created_at

\* two categories were queued and one was attempted
C7_Witness ==
    \E w \in Workers :
        inv[w].category # NoCategory /\ Len(inv[w].queued_seen) >= 2

\* C8: a category is in the pool (with last_digest_at stamped) exactly when a
\* digest built from it has been delivered by an invocation that ran to its
\* end; otherwise it stays queued; and a category in the pool is not
\* attempted again.
C8_PoolExactlyWhenDelivered ==
    /\ \A c \in 1..Len(categories) :
         categories[c].status = "pool" =>
            /\ \E j \in 1..Len(outbox) : outbox[j].category = c
            /\ categories[c].last_digest_at >= 0
    /\ \A j \in 1..Len(outbox) :
         (outbox[j].category # NoCategory /\ ~InFlight(outbox[j].run)) =>
            categories[outbox[j].category].status = "pool"
    /\ \A w \in Workers :
         (inv[w].category # NoCategory
            /\ categories[inv[w].category].status = "pool") =>
                \E j \in 1..Len(outbox) :
                    outbox[j].run = inv[w].run /\ outbox[j].category = inv[w].category

\* a category was used and moved to the pool, and a later scheduled
\* invocation found nothing queued
C8_Witness ==
    /\ \E c \in 1..Len(categories) : categories[c].status = "pool"
    /\ inv["scheduler"].run > 1
    /\ inv["scheduler"].pc = "read_anchors"
    /\ inv["scheduler"].category = NoCategory

\* C9: when the oldest queued category yields no digest and a qualifying
\* cluster exists, the same invocation goes on to a curator digest: it ends
\* with the digest sent, or with prose generation or delivery having failed.
C9_CategoryNeverBlocksCurator ==
    LET s == inv["scheduler"]
    IN  (/\ s.pc = "idle"
         /\ s.run > 0
         /\ s.category # NoCategory
         /\ s.category_used = NoCategory
         /\ get_cluster_for_digest(quotes, TRUE, s.excluded, now) # {None})
        => s.outcome \in {"sent", "delivery_failed", "nothing_to_send"}

\* get_recent_category_quote_ids(category_id, days): database.py 354-374
get_recent_category_quote_ids(rows, category_id, days, today) ==
    UNION { Range(rows[i].quote_ids) : i \in
              { j \in 1..Len(rows) :
                  rows[j].category_id = category_id /\ rows[j].sent_at >= today - days } }

\* the row save_category_digest_history inserts: database.py 377-394
CategoryHistoryRow(category_id, quote_ids, article_count, subject, today) ==
    [category_id |-> category_id, quote_ids |-> quote_ids,
     article_count |-> article_count, subject |-> subject, sent_at |-> today]

\* the category digests delivered by invocations that have ended
CategoryDeliveries ==
    { j \in 1..Len(outbox) :
        outbox[j].category # NoCategory /\ ~InFlight(outbox[j].run) }

\* C11: every category digest sent by an invocation that has ended has a
\* category history record with its category_id, quote_ids, article_count and
\* subject, and a category digest about to be sent shows no quote that the
\* category history holds for that category within the preceding 30 days.
C11_CategoryHistoryRecorded ==
    /\ \A j \in CategoryDeliveries :
         \E i \in 1..Len(category_digest_history) :
            category_digest_history[i] =
                CategoryHistoryRow(outbox[j].category, outbox[j].html_body.quotes,
                                   Cardinality({q.article_id : q \in
                                       {r \in Range(quotes) :
                                          r.id \in Range(outbox[j].html_body.quotes)}}),
                                   outbox[j].subject,
                                   category_digest_history[i].sent_at)
    /\ \A w \in Workers :
         (inv[w].pc = "send" /\ inv[w].category_used # NoCategory) =>
            Range(inv[w].digest.value.quote_ids)
              \cap get_recent_category_quote_ids(category_digest_history,
                        inv[w].category_used, CategoryLookbackDays, now) = {}


----------------------------------------------------------------------------
(* Specification SpecFaults: the digest cycle when calls of the repository  *)
(* fail; inv[w].fault names the first call that failed in the invocation    *)

\* get_all_quotes_with_articles() raises (database.py 130-166 has no handler):
\* the except clause of main.py 140 ends the scheduled invocation, the api
\* and the script let the exception end theirs
FetchQuotesFails(w) ==
    /\ inv[w].pc = "fetch_quotes"
    /\ inv' = [inv EXCEPT ![w] = [Finish(w, "raised") EXCEPT !.fault = "quotes"]]
    /\ UNCHANGED <<quotes, categories, history, outbox, now, runs, emailOk, call, category_digest_history>>

\* get_queued_categories() raises: main.py 104, caught at main.py 140
CheckQueuedFails(w) ==
    /\ inv[w].pc = "check_queued"
    /\ inv' = [inv EXCEPT ![w] = [Finish(w, "raised") EXCEPT !.fault = "queued"]]
    /\ UNCHANGED <<quotes, categories, history, outbox, now, runs, emailOk, call, category_digest_history>>

\* the query of get_recent_digest_anchor_ids raises: database.py 218-220
\* catches it and returns set(), and the caller goes on
ReadAnchorsFails(w) ==
    /\ inv[w].pc = "read_anchors"
    /\ inv' = [inv EXCEPT ![w] =
                 [inv[w] EXCEPT !.excluded = {}, !.pc = "curate", !.fault = "anchors"]]
    /\ UNCHANGED <<quotes, categories, history, outbox, now, runs, emailOk, call, category_digest_history>>

\* the insert of save_digest_history raises: database.py 233-235 catches it
\* and returns None, and the caller goes on (main.py 131-136)
RecordFails(w) ==
    /\ inv[w].pc = "record"
    /\ inv' = [inv EXCEPT ![w] =
                 [inv[w] EXCEPT
                    !.pc = AfterRecord(inv[w].category_used),
                    !.outcome = IF AfterRecord(inv[w].category_used) = "idle"
                                THEN "sent" ELSE @,
                    !.fault = IF @ = "none" THEN "history" ELSE @]]
    /\ UNCHANGED <<quotes, categories, history, outbox, now, runs, emailOk, call, category_digest_history>>

NextFaults ==
    \/ Next
    \/ \E w \in Workers : FetchQuotesFails(w)
    \/ \E w \in Workers : CheckQueuedFails(w)
    \/ \E w \in Workers : ReadAnchorsFails(w)
    \/ \E w \in Workers : RecordFails(w)

SpecFaults == Init /\ [][NextFaults]_vars

\* the category an invocation attempted is still as create_category left it
Untouched(w) ==
    inv[w].category # NoCategory =>
        /\ categories[inv[w].category].status = "queued"
        /\ categories[inv[w].category].last_digest_at < 0

----------------------------------------------------------------------------
(* Specification SpecLive: the scheduled job firing day after day (main.py  *)
(* 149-154), with email configured; invocations are counted up to MaxRuns   *)
(* and the count then stays                                                 *)

\* the cron trigger fires send_scheduled_digest: main.py 149-154 and 86-90
CronFire ==
    /\ inv["scheduler"].pc = "idle"
    /\ runs' = Min2(runs + 1, MaxRuns)
    /\ inv' = [inv EXCEPT !["scheduler"] =
                 [Idle EXCEPT !.pc = "fetch_quotes", !.run = Min2(runs + 1, MaxRuns)]]
    /\ UNCHANGED <<quotes, categories, history, outbox, now, emailOk, call, category_digest_history>>

\* the steps of the scheduled job
SchedulerStep ==
    \/ CronFire
    \/ FetchQuotes("scheduler")
    \/ CheckQueued("scheduler")
    \/ ReadAnchors("scheduler")
    \/ Curate("scheduler")
    \/ Send("scheduler")
    \/ Record("scheduler")
    \/ Pool("scheduler")

\* send_digest_email returning normally: email_sender.py 5-31
Deliver == Send("scheduler") /\ Len(outbox') > Len(outbox)

InitLive ==
    /\ quotes \in CycleCorpora
    /\ categories = <<>>
    /\ history = <<>>
    /\ outbox = <<>>
    /\ now = 0
    /\ inv = [w \in Workers |-> Idle]
    /\ runs = 0
    /\ emailOk = TRUE
    /\ call = NoCall
    /\ category_digest_history = <<>>

NextLive ==
    \/ CronFire
    \/ FetchQuotes("scheduler")
    \/ CheckQueued("scheduler")
    \/ ReadAnchors("scheduler")
    \/ Curate("scheduler")
    \/ Send("scheduler")
    \/ Record("scheduler")
    \/ Pool("scheduler")
    \/ CreateCategory

\* the job fires again and again and runs to its end; delivery succeeds
SpecLive ==
    InitLive /\ [][NextLive]_vars /\ WF_vars(SchedulerStep) /\ SF_vars(Deliver)

\* category c is queued and has enough matching quotes from enough articles
QueuedAndReady(c) ==
    /\ c <= Len(categories)
    /\ categories[c].status = "queued"
    /\ generate_digest_for_category(categories[c], quotes).kind = "value"

InPool(c) == c <= Len(categories) /\ categories[c].status = "pool"

\* C29: under repeated invocations of the scheduled job with successful
\* delivery, every queued category that has enough matching quotes and
\* articles is eventually used for a digest and moved to the pool, also when
\* an older queued category never has enough matches.
C29_ReadyCategoryEventuallyPooled ==
    \A c \in 1..MaxCategories : QueuedAndReady(c) ~> InPool(c)

----------------------------------------------------------------------------
(* Specification SpecOverlap: digest invocations of two application         *)
(* processes and of the manual endpoint, interleaved step by step           *)

OverlapWorkers == Schedulers \cup {"api"}

InitOverlap ==
    /\ quotes \in CycleCorpora
    /\ categories = <<>>
    /\ history = <<>>
    /\ outbox = <<>>
    /\ now = 0
    /\ inv = [w \in OverlapWorkers |-> Idle]
    /\ runs = 0
    /\ emailOk = TRUE
    /\ call = NoCall
    /\ category_digest_history = <<>>

NextOverlap ==
    \/ \E w \in OverlapWorkers : Start(w)
    \/ \E w \in OverlapWorkers : FetchQuotes(w)
    \/ \E w \in OverlapWorkers : CheckQueued(w)
    \/ \E w \in OverlapWorkers : ReadAnchors(w)
    \/ \E w \in OverlapWorkers : Curate(w)
    \/ \E w \in OverlapWorkers : Send(w)
    \/ \E w \in OverlapWorkers : Record(w)
    \/ \E w \in OverlapWorkers : Pool(w)
    \/ CreateCategory

SpecOverlap == InitOverlap /\ [][NextOverlap]_vars

\* emails i and j of the outbox carry a digest of the same category
SameCategoryDigest(i, j) ==
    /\ i # j
    /\ outbox[i].category # NoCategory
    /\ outbox[i].category = outbox[j].category
    /\ outbox[i].html_body = outbox[j].html_body

\* the invocations behind emails i and j were under way at the same time
Overlapped(i, j) ==
    \/ outbox[i].run \in outbox[j].overlapped
    \/ outbox[j].run \in outbox[i].overlapped

\* C21: overlapping digest invocations are not serialized: two of them can
\* read the same state before either records, select the same queued
\* category and both send, which duplicates a digest; a digest of the same
\* category is sent twice only by invocations that overlapped.
C21_DuplicateOnlyByOverlap ==
    \A i, j \in 1..Len(outbox) : SameCategoryDigest(i, j) => Overlapped(i, j)

\* two invocations read the same queue and the same history, selected the
\* same category, and both delivered its digest
C21_Witness ==
    \E w1, w2 \in Schedulers :
        /\ w1 # w2
        /\ inv[w1].queued_seen # <<>>
        /\ inv[w1].queued_seen = inv[w2].queued_seen
        /\ inv[w1].category_used # NoCategory
        /\ inv[w1].category_used = inv[w2].category_used
        /\ \E i, j \in 1..Len(outbox) :
             /\ outbox[i].run = inv[w1].run
             /\ outbox[j].run = inv[w2].run
             /\ SameCategoryDigest(i, j)

----------------------------------------------------------------------------
(* Specification SpecCurator: generate_curator_digest, with the arguments   *)
(* its signature accepts, on generated corpora; recent_anchor_ids is what   *)
(* get_recent_digest_anchor_ids gave the caller                             *)

InitCurator ==
    /\ quotes \in Corpora
    /\ CycleAtRest
    /\ \E recent \in SUBSET FirstIds :
         call = [op |-> "generate_curator_digest", pc |-> "called",
                 recent_anchor_ids |-> recent, picked |-> None, llm_ok |-> TRUE,
                 result |-> None]

CallCuratorDigest ==
    /\ call.op = "generate_curator_digest"
    /\ call.pc = "called"
    /\ \E picked \in CuratorPicks(quotes, TRUE, now), llm_ok \in BOOLEAN :
         call' = [call EXCEPT !.pc = "returned", !.picked = picked,
                              !.llm_ok = llm_ok,
                              !.result = CuratorDigestFor(picked, llm_ok)]
    /\ UNCHANGED <<quotes, cycleVars>>

NextCurator == CallCuratorDigest

SpecCurator == InitCurator /\ [][NextCurator]_vars

CuratorReturnedDigest ==
    /\ call.op = "generate_curator_digest"
    /\ call.pc = "returned"
    /\ call.result.kind = "value"

\* C2: the anchor of a new curator digest is not an anchor used within the
\* preceding 7 days, unless every qualifying cluster's anchor was used within
\* that window.
C2_NoRecentAnchorAgain ==
    CuratorReturnedDigest =>
        \/ call.picked.value.anchor_quote.id \notin call.recent_anchor_ids
        \/ AnchorIds(find_quote_clusters(quotes, DefaultSimilarityThreshold,
                        DefaultMinQuotes, DefaultMinArticles, FALSE, now))
             \subseteq call.recent_anchor_ids

\* C3: the history row written for a delivered curator digest carries the
\* anchor quote id of the selected cluster and that cluster's quote ids.
C3_HistoryCarriesChosenIds ==
    CuratorReturnedDigest =>
        LET row == HistoryRow(call.result.value, now, 0)
            cluster == call.picked.value
        IN  /\ row.anchor_quote_id = cluster.anchor_quote.id
            /\ row.cluster_quote_ids =
                   [i \in 1..Len(cluster.quotes) |-> cluster.quotes[i].id]

\* C16: the caller of generate_curator_digest can tell "nothing to send" from
\* a fault: it observes None exactly when no cluster is usable, and a failed
\* prose generation is observed as something other than None.
C16_NothingToSendVsFault ==
    (call.op = "generate_curator_digest" /\ call.pc = "returned") =>
        /\ call.picked.kind = "none" => call.result = None
        /\ (call.picked.kind = "value" /\ ~call.llm_ok) => call.result # None

----------------------------------------------------------------------------
(* Category matching: category_matcher.py 32-87, database.py 317-331 and    *)
(* the search_quotes function of migrate_categories.py 43-72                *)

RECURSIVE InsertBySimilarity(_, _)
\* m placed after every element that is not less similar (stable, descending)
InsertBySimilarity(s, m) ==
    IF s = <<>> THEN <<m>>
    ELSE IF Head(s).similarity >= m.similarity
         THEN <<Head(s)>> \o InsertBySimilarity(Tail(s), m)
         ELSE <<m>> \o s

RECURSIVE SortBySimilarityDesc(_)
SortBySimilarityDesc(s) ==
    IF s = <<>> THEN <<>>
    ELSE InsertBySimilarity(SortBySimilarityDesc(SubSeq(s, 1, Len(s) - 1)), s[Len(s)])

\* search_quotes: rows strictly above the threshold, nearest first, at most
\* match_count of them; a row without an embedding never passes the WHERE
search_quotes(rows, query_embedding, match_count, similarity_threshold) ==
    LET Above(q) ==
            /\ q.embedding.kind = "list"
            /\ cosine_similarity(q.embedding, query_embedding) > similarity_threshold
        scored == [i \in 1..Len(rows) |->
                     [id |-> rows[i].id, article_id |-> rows[i].article_id,
                      embedding |-> rows[i].embedding,
                      created_at |-> rows[i].created_at,
                      similarity |-> cosine_similarity(rows[i].embedding,
                                                       query_embedding)]]
        IsAbove(m) == Above(m)
    IN  Slice(SortBySimilarityDesc(SelectSeq(scored, IsAbove)), 1, match_count)

\* SkipExcluded skipping nothing
SkipExcluded_Never(quote_id, excluded_quote_ids) == FALSE

\* category_matcher.py 74: excluded_quote_ids and quote_id in excluded_quote_ids
SkipExcluded(quote_id, excluded_quote_ids) ==
    excluded_quote_ids # {} /\ quote_id \in excluded_quote_ids

\* find_quotes_for_category, lines 54-87
find_quotes_for_category(rows, category_embedding, similarity_threshold, limit, excluded_quote_ids) ==
    LET matching_quotes == search_quotes(rows, category_embedding, limit * 2,
                                         similarity_threshold)
        ids == {q.id : q \in Range(rows)}
        Kept(m) == ~SkipExcluded(m.id, excluded_quote_ids) /\ m.id \in ids
    IN  Slice(SortBySimilarityDesc(SelectSeq(matching_quotes, Kept)), 1, limit)

\* EnoughArticles with the gate of lines 48-50 dropped
EnoughArticles_Any(article_ids) == TRUE

\* category_digest_generator.py 48-50
EnoughArticles(article_ids) == ~(Cardinality(article_ids) < MinCategoryArticles)

\* generate_category_digest: category_digest_generator.py 11-68
generate_category_digest(rows, category, excluded_quote_ids) ==
    IF category.embedding.kind = "none" THEN None
    ELSE
    LET found == find_quotes_for_category(rows, category.embedding,
                     CategoryDigestThreshold, CategoryDigestLimit,
                     excluded_quote_ids)
        article_ids == {q.article_id : q \in Range(found)}
        selected_quotes == Slice(found, 1, CategoryDigestQuotes)
    IN  IF Len(found) < category.min_quotes_for_digest THEN None
        ELSE IF ~EnoughArticles(article_ids) THEN None
        ELSE Value([subject |-> "Category Digest",
                    html_body |-> [i \in 1..Len(selected_quotes) |->
                                     selected_quotes[i].id],
                    quote_ids |-> [i \in 1..Len(selected_quotes) |->
                                     selected_quotes[i].id],
                    article_count |->
                        Cardinality({q.article_id : q \in Range(selected_quotes)})])

----------------------------------------------------------------------------
(* Specification SpecCategory: generate_category_digest on generated        *)
(* corpora and categories                                                   *)

\* embeddings of the categories exercised: two themes, a direction between
\* them, and a category whose embedding is missing
HarnessCategoryEmbeddings ==
    {ListEmb(ThemeVector(1)), ListEmb(ThemeVector(2)), ListEmb(<<4, 3, 0, 0>>),
     NoneEmb}

\* quote ids a caller may exclude
ExcludableIds == {1, 11, 12, 21}

\* shapes of the groups exercised: those of the clustering corpora and a
\* group of five quotes taken from two articles only
CategoryShapes == Shapes \cup { [n |-> 5, spread |-> 2, old |-> FALSE] }

\* corpora with quotes on themes 1 and 2 only
TwoThemeCorpora ==
    { Corpus(shapeOf, extras) :
        shapeOf \in { f \in [1..MaxGroups -> CategoryShapes] :
                        \A g \in 1..MaxGroups : g > 2 => f[g].n = 0 },
        extras \in {{}, {"bridge", "bare"}} }

InitCategory ==
    /\ quotes \in TwoThemeCorpora
    /\ CycleAtRest
    /\ \E e \in HarnessCategoryEmbeddings, m \in {DefaultMinQuotes, DefaultMinQuotes + 1},
          excluded \in SUBSET ExcludableIds :
         call = [op |-> "generate_category_digest", pc |-> "called",
                 category |-> [NewCategory(1, e) EXCEPT !.min_quotes_for_digest = m],
                 excluded_quote_ids |-> excluded, result |-> None]

CallCategoryDigest ==
    /\ call.op = "generate_category_digest"
    /\ call.pc = "called"
    /\ call' = [call EXCEPT
                  !.pc = "returned",
                  !.result = generate_category_digest(quotes, call.category,
                                                      call.excluded_quote_ids)]
    /\ UNCHANGED <<quotes, cycleVars>>

NextCategory == CallCategoryDigest

SpecCategory == InitCategory /\ [][NextCategory]_vars

\* the non-excluded quotes of the table more similar to the category of the
\* call than the digest threshold
CallMatching ==
    { q \in Range(quotes) :
        /\ q.embedding.kind = "list"
        /\ call.category.embedding.kind = "list"
        /\ cosine_similarity(q.embedding, call.category.embedding)
              > CategoryDigestThreshold
        /\ q.id \notin call.excluded_quote_ids }

\* C10: generate_category_digest produces a digest only if the category has
\* at least min_quotes_for_digest matching non-excluded quotes and they come
\* from at least 3 distinct articles; otherwise it returns None.
C10_CategoryDigestGates ==
    (call.op = "generate_category_digest" /\ call.pc = "returned") =>
        LET enough ==
                /\ Cardinality(CallMatching) >= call.category.min_quotes_for_digest
                /\ Cardinality({q.article_id : q \in CallMatching})
                      >= MinCategoryArticles
        IN  /\ call.result.kind = "value" => enough
            /\ ~enough => call.result = None

\* a digest was produced with a quote excluded, and the gates were met
C10_Witness ==
    /\ call.op = "generate_category_digest"
    /\ call.pc = "returned"
    /\ call.result.kind = "value"
    /\ call.excluded_quote_ids # {}
    /\ Cardinality(CallMatching) = call.category.min_quotes_for_digest

----------------------------------------------------------------------------
(* Specification SpecPreview: GET /categories/{id}/preview on generated     *)
(* corpora and categories                                                   *)

\* get_category_stats: category_matcher.py 90-125 (counts only)
get_category_stats(rows, category_embedding, excluded_quote_ids) ==
    LET found == find_quotes_for_category(rows, category_embedding,
                     CategoryThreshold, StatsLimit, excluded_quote_ids)
        article_ids == {q.article_id : q \in Range(found)}
    IN  [matching_quotes_count |-> Len(found),
         matching_articles_count |-> Cardinality(article_ids),
         sample_quotes |-> [i \in 1..Len(Slice(found, 1, 3)) |-> found[i].id]]

\* preview_category_digest: main.py 920-954, for a category that exists
preview_category_digest(rows, cat) ==
    IF cat.embedding.kind = "none"
    THEN [matching_quotes |-> 0, matching_articles |-> 0, can_send |-> FALSE,
          sample_quotes |-> <<>>]
    ELSE
    LET stats == get_category_stats(rows, cat.embedding, {})
    IN  [matching_quotes |-> stats.matching_quotes_count,
         matching_articles |-> stats.matching_articles_count,
         can_send |-> /\ stats.matching_quotes_count >= PreviewMinQuotes
                      /\ stats.matching_articles_count >= PreviewMinArticles,
         sample_quotes |-> stats.sample_quotes]

InitPreview ==
    /\ quotes \in TwoThemeCorpora
    /\ CycleAtRest
    /\ \E e \in HarnessCategoryEmbeddings, m \in {DefaultMinQuotes, DefaultMinQuotes + 1} :
         call = [op |-> "preview_category_digest", pc |-> "called",
                 category |-> [NewCategory(1, e) EXCEPT !.min_quotes_for_digest = m],
                 result |-> None]

CallPreviewCategoryDigest ==
    /\ call.op = "preview_category_digest"
    /\ call.pc = "called"
    /\ call' = [call EXCEPT
                  !.pc = "returned",
                  !.result = Value(preview_category_digest(quotes, call.category))]
    /\ UNCHANGED <<quotes, cycleVars>>

NextPreview == CallPreviewCategoryDigest

SpecPreview == InitPreview /\ [][NextPreview]_vars

PreviewReturned == call.op = "preview_category_digest" /\ call.pc = "returned"

\* C30: when the preview of a category reports can_send = true,
\* generate_category_digest for that category on the same corpus and with no
\* exclusions returns a digest; when it reports can_send = false, no digest
\* is returned.
C30_PreviewPredictsDigest ==
    PreviewReturned =>
        (call.result.value.can_send
            <=> generate_category_digest(quotes, call.category, {}).kind = "value")

----------------------------------------------------------------------------
(* Specification SpecCluster: find_quote_clusters on generated corpora,     *)
(* with quotes of every age and several parameter settings                  *)

\* the quotes of the given groups that are less than 30 days old made 30
\* days older: they are then between 30 and 60 days old
MidAged(qs, groups) ==
    [i \in 1..Len(qs) |->
        IF (qs[i].id \div 10) \in groups /\ qs[i].created_at > 0 - RecentDays
        THEN [qs[i] EXCEPT !.created_at = @ - RecentDays]
        ELSE qs[i]]

ClusterCorpora == { MidAged(c, groups) : c \in TwoThemeCorpora, groups \in SUBSET {1, 2} }

ClusterThresholds == {0, DefaultSimilarityThreshold, 80}
ClusterMinQuotes == {3, DefaultMinQuotes, 6}
ClusterMinArticles == {2, DefaultMinArticles}

InitCluster ==
    /\ quotes \in ClusterCorpora
    /\ CycleAtRest
    /\ \E t \in ClusterThresholds, mq \in ClusterMinQuotes, ma \in ClusterMinArticles,
          strict \in BOOLEAN :
         call = [op |-> "find_quote_clusters", pc |-> "called",
                 similarity_threshold |-> t, min_quotes |-> mq, min_articles |-> ma,
                 require_old_anchor |-> strict, result |-> <<>>]

CallFindQuoteClusters ==
    /\ call.op = "find_quote_clusters"
    /\ call.pc = "called"
    /\ call' = [call EXCEPT
                  !.pc = "returned",
                  !.result = find_quote_clusters(quotes, call.similarity_threshold,
                                 call.min_quotes, call.min_articles,
                                 call.require_old_anchor, now)]
    /\ UNCHANGED <<quotes, cycleVars>>

NextCluster == CallFindQuoteClusters

SpecCluster == InitCluster /\ [][NextCluster]_vars

ClustersReturned == call.op = "find_quote_clusters" /\ call.pc = "returned"

\* the ids of the member quotes of a cluster
MemberIds(c) == {q.id : q \in Range(c.quotes)}

\* C12: every cluster returned by find_quote_clusters has at least min_quotes
\* member quotes and at least min_articles distinct article ids.
C12_ClusterMeetsMinimums ==
    ClustersReturned =>
        \A i \in 1..Len(call.result) :
            /\ Len(call.result[i].quotes) >= call.min_quotes
            /\ Cardinality({q.article_id : q \in Range(call.result[i].quotes)})
                  >= call.min_articles

\* a cluster was returned while a group of five similar quotes from two
\* articles, one short of min_articles, was held back
C12_Witness ==
    /\ ClustersReturned
    /\ call.min_quotes = DefaultMinQuotes
    /\ call.min_articles = DefaultMinArticles
    /\ Len(call.result) = 1
    /\ \E g \in {1, 2} :
         /\ Cardinality({q \in Range(quotes) : q.id \div 10 = g}) = 5
         /\ Cardinality({q.article_id : q \in {r \in Range(quotes) : r.id \div 10 = g}}) = 2

\* C13: the clusters returned by one call are pairwise disjoint: no quote id
\* is a member of two returned clusters.
C13_ClustersDisjoint ==
    ClustersReturned =>
        \A i, j \in 1..Len(call.result) :
            i # j => MemberIds(call.result[i]) \cap MemberIds(call.result[j]) = {}

\* two clusters were returned, and a quote similar enough to the seeds of
\* both is a member of one of them
C13_Witness ==
    /\ ClustersReturned
    /\ Len(call.result) = 2
    /\ call.similarity_threshold = DefaultSimilarityThreshold
    /\ \E i \in 1..2 : BridgeQuote.id \in MemberIds(call.result[i])

\* C14: in strict mode every returned cluster has an anchor created more
\* than 60 days ago and at least 2 member quotes created within the last 30
\* days.
C14_StrictOldAnchorAndRecent ==
    (ClustersReturned /\ call.require_old_anchor) =>
        \A i \in 1..Len(call.result) :
            /\ call.result[i].anchor_quote.created_at < now - OldAnchorDays
            /\ Cardinality({q \in Range(call.result[i].quotes) :
                               q.created_at >= now - RecentDays}) >= 2

\* C15: in strict mode a member quote created between 30 and 60 days ago is
\* never the anchor_quote and never appears in recent_quotes of a returned
\* cluster.
C15_GapQuotesExcluded ==
    (ClustersReturned /\ call.require_old_anchor) =>
        \A i \in 1..Len(call.result) :
            \A q \in Range(call.result[i].quotes) :
                (q.created_at >= now - OldAnchorDays /\ q.created_at < now - RecentDays)
                  => /\ q # call.result[i].anchor_quote
                     /\ q \notin Range(call.result[i].recent_quotes)

\* the position of a quote in the table
IndexOf(q) == CHOOSE i \in 1..Len(quotes) : quotes[i] = q

\* q1 comes before q2 in sorted(quotes, key=created_at): line 78
Precedes(q1, q2) ==
    \/ q1.created_at < q2.created_at
    \/ q1.created_at = q2.created_at /\ IndexOf(q1) < IndexOf(q2)

\* every group the loop of lines 80-96 opens for the call, kept or dropped
CallGroups ==
    find_quote_clusters(quotes, call.similarity_threshold, 0, 0, FALSE, now)

\* line 101 for a group of the call
GroupQualifies(g) ==
    /\ Len(g.quotes) >= call.min_quotes
    /\ Cardinality({q.article_id : q \in Range(g.quotes)}) >= call.min_articles

\* C22: in strict mode the anchor_quote of a returned cluster is the oldest
\* member created more than 60 days ago, and recent_quotes is the first three
\* (at most) of the members created within the last 30 days, in cluster
\* order.
C22_StrictAnchorAndEchoes ==
    (ClustersReturned /\ call.require_old_anchor) =>
        \A i \in 1..Len(call.result) :
            LET c == call.result[i]
                IsOld(q) == q.created_at < now - OldAnchorDays
                IsRecent(q) == q.created_at >= now - RecentDays
                old == SelectSeq(c.quotes, IsOld)
                recent == SelectSeq(c.quotes, IsRecent)
            IN  /\ old # <<>>
                /\ c.anchor_quote = old[1]
                /\ \A k \in 1..Len(old) : c.anchor_quote.created_at <= old[k].created_at
                /\ c.recent_quotes = SubSeq(recent, 1, Min2(3, Len(recent)))

\* C23: in relaxed mode every qualifying group is returned, with
\* anchor_quote its first and oldest member, recent_quotes the next three (at
\* most) members whatever their age, and has_old_anchor true iff a member is
\* older than 60 days.
C23_RelaxedAnchorAndEchoes ==
    (ClustersReturned /\ ~call.require_old_anchor) =>
        /\ \A i \in 1..Len(call.result) :
             LET c == call.result[i]
             IN  /\ c.anchor_quote = c.quotes[1]
                 /\ \A k \in 1..Len(c.quotes) :
                      c.anchor_quote.created_at <= c.quotes[k].created_at
                 /\ c.recent_quotes = SubSeq(c.quotes, 2, Min2(4, Len(c.quotes)))
                 /\ c.has_old_anchor <=>
                      \E k \in 1..Len(c.quotes) :
                          c.quotes[k].created_at < now - OldAnchorDays
        /\ {MemberIds(c) : c \in Range(call.result)}
             = {MemberIds(g) : g \in {h \in Range(CallGroups) : GroupQualifies(h)}}

\* a relaxed cluster of more than four quotes, none older than 60 days, one
\* of its echoes between 30 and 60 days old
C23_Witness ==
    /\ ClustersReturned
    /\ ~call.require_old_anchor
    /\ \E i \in 1..Len(call.result) :
         /\ Len(call.result[i].quotes) > 4
         /\ ~call.result[i].has_old_anchor
         /\ \E q \in Range(call.result[i].recent_quotes) :
              q.created_at < now - RecentDays

\* C24: in every returned cluster each non-seed member is at least
\* threshold-similar to the seed, and every quote at least threshold-similar
\* to the seed that is not a member was assigned to a group opened earlier.
C24_SingleLinkToSeed ==
    ClustersReturned =>
        \A i \in 1..Len(call.result) :
            LET c == call.result[i]
                seed == c.quotes[1]
            IN  /\ \A k \in 2..Len(c.quotes) :
                     cosine_similarity(seed.embedding, c.quotes[k].embedding)
                        >= call.similarity_threshold
                /\ \A q \in Range(quotes) :
                     (/\ q.embedding.kind # "none"
                      /\ q \notin Range(c.quotes)
                      /\ cosine_similarity(seed.embedding, q.embedding)
                            >= call.similarity_threshold)
                       => \E g \in Range(CallGroups) :
                             q \in Range(g.quotes) /\ Precedes(g.quotes[1], seed)

\* a returned cluster holds a quote whose similarity to the seed is exactly
\* the threshold
C24_Witness ==
    /\ ClustersReturned
    /\ call.similarity_threshold > 0
    /\ \E i \in 1..Len(call.result) :
         \E k \in 2..Len(call.result[i].quotes) :
            cosine_similarity(call.result[i].quotes[1].embedding,
                              call.result[i].quotes[k].embedding)
              = call.similarity_threshold

\* C25: the quotes of a group that fails the min_quotes or min_articles gate
\* appear in no returned cluster, and every returned cluster is a group as
\* it was opened: no quote of a dropped group seeds or joins a later one.
C25_DroppedGroupsStayAssigned ==
    ClustersReturned =>
        /\ \A g \in Range(CallGroups) :
             ~GroupQualifies(g) =>
                \A i \in 1..Len(call.result) :
                    MemberIds(g) \cap MemberIds(call.result[i]) = {}
        /\ \A i \in 1..Len(call.result) :
             \E g \in Range(CallGroups) : g.quotes = call.result[i].quotes

\* a group was dropped although one of its quotes is similar enough to the
\* seed of a group opened later, which fell short of min_quotes without it
C25_Witness ==
    /\ ClustersReturned
    /\ \E g, h \in Range(CallGroups) :
         /\ ~GroupQualifies(g)
         /\ Precedes(g.quotes[1], h.quotes[1])
         /\ Len(h.quotes) + 1 = call.min_quotes
         /\ \E q \in Range(g.quotes) :
              cosine_similarity(h.quotes[1].embedding, q.embedding)
                >= call.similarity_threshold

\* C26: the clusters come in descending order of member count, and clusters
\* of equal member count in the order their seeds were opened.
C26_RichestFirstStable ==
    ClustersReturned =>
        \A i, j \in 1..Len(call.result) :
            i < j =>
                /\ Len(call.result[i].quotes) >= Len(call.result[j].quotes)
                /\ Len(call.result[i].quotes) = Len(call.result[j].quotes)
                     => Precedes(call.result[i].quotes[1], call.result[j].quotes[1])

\* the richer of two clusters was opened after the other and comes first
C26_Witness ==
    /\ ClustersReturned
    /\ Len(call.result) >= 2
    /\ Len(call.result[1].quotes) > Len(call.result[2].quotes)
    /\ Precedes(call.result[2].quotes[1], call.result[1].quotes[1])

\* C27: no returned cluster holds a quote without an embedding, such quotes
\* do not change the result, and with fewer than min_quotes quotes that have
\* an embedding the result is empty.
C27_NoEmbeddingNoPart ==
    ClustersReturned =>
        LET Embedded(q) == q.embedding.kind # "none"
            embedded == SelectSeq(quotes, Embedded)
        IN  /\ \A i \in 1..Len(call.result) :
                 \A q \in Range(call.result[i].quotes) : Embedded(q)
            /\ call.result = find_quote_clusters(embedded, call.similarity_threshold,
                                 call.min_quotes, call.min_articles,
                                 call.require_old_anchor, now)
            /\ Len(embedded) < call.min_quotes => call.result = <<>>

\* a cluster was returned at threshold 0, where the similarity 0.0 of a quote
\* without an embedding would have let it in
C27_Witness ==
    /\ ClustersReturned
    /\ call.similarity_threshold = 0
    /\ call.result # <<>>
    /\ BareQuote \in Range(quotes)

----------------------------------------------------------------------------
(* Specification SpecMatch: find_quotes_for_category on generated corpora   *)

MatchEmbeddings == {ListEmb(ThemeVector(1)), ListEmb(ThemeVector(2)), ListEmb(<<4, 3, 0, 0>>)}
MatchThresholds == {CategoryThreshold, DefaultSimilarityThreshold, 80}
MatchLimits == {1, 3, CategoryDigestLimit}

InitMatch ==
    /\ quotes \in TwoThemeCorpora
    /\ CycleAtRest
    /\ \E e \in MatchEmbeddings, t \in MatchThresholds, l \in MatchLimits,
          excluded \in SUBSET ExcludableIds :
         call = [op |-> "find_quotes_for_category", pc |-> "called",
                 category_embedding |-> e, similarity_threshold |-> t, limit |-> l,
                 excluded_quote_ids |-> excluded, result |-> <<>>]

CallFindQuotesForCategory ==
    /\ call.op = "find_quotes_for_category"
    /\ call.pc = "called"
    /\ call' = [call EXCEPT
                  !.pc = "returned",
                  !.result = find_quotes_for_category(quotes, call.category_embedding,
                                 call.similarity_threshold, call.limit,
                                 call.excluded_quote_ids)]
    /\ UNCHANGED <<quotes, cycleVars>>

NextMatch == CallFindQuotesForCategory

SpecMatch == InitMatch /\ [][NextMatch]_vars

MatchReturned == call.op = "find_quotes_for_category" /\ call.pc = "returned"

\* the similarity of a quote to the category embedding of the call
CallSimilarity(q) == cosine_similarity(q.embedding, call.category_embedding)

\* the quotes of the table that qualify for the call: an embedding at least
\* threshold-similar to the category, and an id that is not excluded
CallQualifying ==
    { q \in Range(quotes) :
        /\ q.embedding.kind = "list"
        /\ CallSimilarity(q) >= call.similarity_threshold
        /\ q.id \notin call.excluded_quote_ids }

\* C18: find_quotes_for_category never returns a quote whose id is in
\* excluded_quote_ids.
C18_NoExcludedQuote ==
    MatchReturned =>
        \A i \in 1..Len(call.result) : call.result[i].id \notin call.excluded_quote_ids

\* quotes were returned while an excluded quote was more similar to the
\* category than the threshold
C18_Witness ==
    /\ MatchReturned
    /\ call.result # <<>>
    /\ \E q \in Range(quotes) :
         /\ q.id \in call.excluded_quote_ids
         /\ q.embedding.kind = "list"
         /\ CallSimilarity(q) > call.similarity_threshold

\* C19: find_quotes_for_category returns exactly the non-excluded quotes at
\* least threshold-similar to the category (the `limit` most similar of them
\* when there are more), in descending order of similarity; a quote at
\* exactly the threshold is included.
C19_ExactlyTheQualifying ==
    MatchReturned =>
        LET ids == {call.result[i].id : i \in 1..Len(call.result)}
        IN  /\ ids \subseteq {q.id : q \in CallQualifying}
            /\ Len(call.result) = Min2(call.limit, Cardinality(CallQualifying))
            /\ \A i, j \in 1..Len(call.result) :
                 i < j => call.result[i].similarity >= call.result[j].similarity
            /\ \A q \in CallQualifying :
                 q.id \notin ids =>
                    \A i \in 1..Len(call.result) :
                        call.result[i].similarity >= CallSimilarity(q)

----------------------------------------------------------------------------
(* Specification SpecCosine: cosine_similarity on embeddings of every form  *)

\* what the NaN of a float looks like to the caller
NaN == [kind |-> "nan"]

\* the embeddings exercised: None, lists of two and three dimensions, a zero
\* vector, well-formed strings and malformed ones
CosineInputs ==
    { NoneEmb,
      ListEmb(<<3, 4>>), ListEmb(<<4, 3>>), ListEmb(<<5, 0, 0>>), ListEmb(<<0, 0>>),
      StrEmb(<<"[", "3", ",", "4", "]">>),
      StrEmb(<<"[", "4", ",", "3", ",", "0", "]">>),
      StrEmb(<<"[", "]">>),
      StrEmb(<<"[", "3", ",", "4">>),
      StrEmb(<<"[", "3", ",", ",", "4", "]">>),
      StrEmb(<<>>) }

InitCosine ==
    /\ quotes = <<>>
    /\ CycleAtRest
    /\ \E a \in CosineInputs, b \in CosineInputs :
         call = [op |-> "cosine_similarity", pc |-> "called", a |-> a, b |-> b,
                 result |-> None]

CallCosineSimilarity ==
    /\ call.op = "cosine_similarity"
    /\ call.pc = "called"
    /\ call' = [call EXCEPT
                  !.pc = "returned",
                  !.result = IF CosineRaises(call.a, call.b) THEN Raised("ValueError")
                             ELSE IF CosineIsNaN(call.a, call.b) THEN NaN
                             ELSE Value(cosine_similarity(call.a, call.b))]
    /\ UNCHANGED <<quotes, cycleVars>>

NextCosine == CallCosineSimilarity

SpecCosine == InitCosine /\ [][NextCosine]_vars

\* the embedding is null or a string that is not JSON
NullOrMalformed(emb) == parse_embedding(emb).kind = "none"

\* both embeddings parse, to vectors of different dimensions
MismatchedDimensions(a, b) ==
    /\ ~NullOrMalformed(a)
    /\ ~NullOrMalformed(b)
    /\ Len(parse_embedding(a).vec) # Len(parse_embedding(b).vec)

\* C20: cosine_similarity returns 0.0 and never raises when either input is
\* null or a malformed JSON string, or when the two vectors have different
\* dimensions.
C20_ZeroNeverRaises ==
    (call.op = "cosine_similarity" /\ call.pc = "returned") =>
        ((NullOrMalformed(call.a) \/ NullOrMalformed(call.b)
            \/ MismatchedDimensions(call.a, call.b))
           => call.result = Value(0))

====
